---------------------------- MODULE Spec2Model ----------------------------
(***************************************************************************)
(* A model of the valuation engine of streamlit_dcf_app.py: the FCF        *)
(* resolver (get_fcf / find_label), the DCF calculator (dcf_valuation),    *)
(* the valuation flag (valuation_flag) and the portfolio aggregator        *)
(* (analyze_portfolio).                                                    *)
(*                                                                         *)
(* Numbers.  The program computes in IEEE-754 doubles.  The model computes *)
(* the same expressions, in the same order, over exact rationals extended  *)
(* with the IEEE special values inf, -inf and nan, so every statement      *)
(* below is a statement about the program's arithmetic up to floating      *)
(* point rounding error.  A finite number is kept as a mixed fraction      *)
(* w + n/d with 0 <= n < d and gcd(n, d) = 1, which keeps every            *)
(* intermediate of the computations below inside TLC's integers.           *)
(***************************************************************************)
EXTENDS Integers, Sequences, FiniteSets, TLC

---------------------------------------------------------------------------
(* Values: Python's None, a finite float, inf, -inf, nan, or the raising   *)
(* of ZeroDivisionError in place of a value.                               *)

V(kind, w, n, d) == [k |-> kind, w |-> w, n |-> n, d |-> d]

None == V("None", 0, 0, 1)
Inf == V("inf", 0, 0, 1)
NegInf == V("-inf", 0, 0, 1)
NaN == V("nan", 0, 0, 1)
ZeroDivisionError == V("ZeroDivisionError", 0, 0, 1)

IsNum(x) == x.k = "num"
IsNone(x) == x.k = "None"

RECURSIVE GCD(_, _)
GCD(a, b) == IF b = 0 THEN a ELSE GCD(b, a % b)

(* <<carry, (a + b) mod d>> for 0 <= a, b < d, without forming a + b. *)
AddMod(a, b, d) == IF a >= d - b THEN <<1, a - (d - b)>> ELSE <<0, a + b>>

(* <<q, r>> with a * b = q * d + r and 0 <= r < d, for a, b >= 0 < d,      *)
(* without forming a * b.                                                  *)
RECURSIVE MulDiv(_, _, _)
MulDivStep(h, a, odd, d) ==
    LET dbl == AddMod(h[2], h[2], d)
        inc == IF odd THEN AddMod(dbl[2], a % d, d) ELSE <<0, dbl[2]>>
    IN  <<2 * h[1] + dbl[1] + (IF odd THEN a \div d ELSE 0) + inc[1], inc[2]>>
MulDiv(a, b, d) ==
    IF b = 0 THEN <<0, 0>>
    ELSE MulDivStep(MulDiv(a, b \div 2, d), a, b % 2 = 1, d)

(* w + n/d for any integer w, any n >= 0 and d > 0, normalised. *)
Norm(w, n, d) ==
    LET r == n % d
        g == GCD(r, d)
    IN  V("num", w + (n \div d), r \div g, d \div g)

Num(i) == V("num", i, 0, 1)
Frac(a, b) == Norm(0, a, b)

Sign(x) == IF x.w < 0 THEN -1 ELSE IF x.w = 0 /\ x.n = 0 THEN 0 ELSE 1

Neg(x) == IF x.n = 0 THEN V("num", -x.w, 0, 1)
          ELSE V("num", -x.w - 1, x.d - x.n, x.d)

Abs(x) == IF Sign(x) < 0 THEN Neg(x) ELSE x

Add(x, y) ==
    LET g == GCD(x.d, y.d)
        L == (x.d \div g) * y.d
        s == AddMod(x.n * (L \div x.d), y.n * (L \div y.d), L)
    IN  Norm(x.w + y.w + s[1], s[2], L)

Sub(x, y) == Add(x, Neg(y))

(* The product of two non-negative numbers, term by term. *)
MulNN(x, y) ==
    LET t2 == MulDiv(x.w, y.n, y.d)
        t3 == MulDiv(y.w, x.n, x.d)
        g1 == GCD(x.n, y.d)
        g2 == GCD(y.n, x.d)
        t4 == Norm(0, (x.n \div g1) * (y.n \div g2), (x.d \div g2) * (y.d \div g1))
    IN  Add(Add(Num(x.w * y.w), Norm(t2[1], t2[2], y.d)),
            Add(Norm(t3[1], t3[2], x.d), t4))

Mul(x, y) == IF Sign(x) * Sign(y) < 0 THEN Neg(MulNN(Abs(x), Abs(y)))
             ELSE MulNN(Abs(x), Abs(y))

(* 1/x for x > 0. *)
Recip(x) == Norm(0, x.d, x.w * x.d + x.n)

(* x / y for y # 0. *)
Div(x, y) == IF Sign(y) < 0 THEN Neg(Mul(x, Recip(Neg(y))))
             ELSE Mul(x, Recip(y))

Less(x, y) == Sign(Sub(x, y)) < 0
Leq(x, y) == Sign(Sub(x, y)) <= 0

(* x ** e for an integer e >= 0. *)
RECURSIVE Pow(_, _)
Pow(x, e) == IF e = 0 THEN Num(1) ELSE Mul(Pow(x, e - 1), x)

(* The integer nearest to x, ties to the even one. *)
RoundInt(x) ==
    IF x.n < x.d - x.n THEN x.w
    ELSE IF x.n > x.d - x.n THEN x.w + 1
    ELSE IF x.w % 2 = 0 THEN x.w ELSE x.w + 1


---------------------------------------------------------------------------
(* Bounds of the model. *)

MaxYears == 5
MaxHoldings == 2
MaxRows == 3

(* A percentage as a fraction: the sliders' value / 100. *)
Pct(p) == Frac(p, 100)

(* Slider positions the model draws the parameters from (percent). *)
DiscountRates == {Pct(5), Pct(10)}
GrowthRates == {Pct(0), Pct(5), Pct(10), Pct(15)}

---------------------------------------------------------------------------
(* dcf_valuation.  np says whether fcf is a numpy float64 (the statement   *)
(* path of get_fcf) or a Python number (the summary figure): dividing a    *)
(* numpy scalar by 0.0 yields inf, dividing a Python number raises.        *)

RECURSIVE npv(_, _, _, _)
npv(fcf, discount_rate, growth_rate, year) ==
    IF year = 0 THEN Num(0)
    ELSE Add(npv(fcf, discount_rate, growth_rate, year - 1),
             Div(Mul(fcf, Pow(Add(Num(1), growth_rate), year)),
                 Pow(Add(Num(1), discount_rate), year)))

TrueDiv(x, y, np) ==
    IF Sign(y) = 0 THEN (IF np THEN (IF Sign(x) < 0 THEN NegInf ELSE Inf)
                         ELSE ZeroDivisionError)
    ELSE Div(x, y)

terminal_value_drop_growth(fcf, np, discount_rate, growth_rate, projection_years) ==
    TrueDiv(Mul(fcf, Pow(Add(Num(1), growth_rate), projection_years)),
            Sub(discount_rate, growth_rate), np)

terminal_value(fcf, np, discount_rate, growth_rate, projection_years) ==
    TrueDiv(Mul(Mul(fcf, Pow(Add(Num(1), growth_rate), projection_years)),
                Add(Num(1), growth_rate)),
            Sub(discount_rate, growth_rate), np)

terminal_value_discounted_late(tv, discount_rate, projection_years) ==
    IF IsNum(tv) THEN Div(tv, Pow(Add(Num(1), discount_rate), projection_years + 1))
    ELSE tv

terminal_value_discounted(tv, discount_rate, projection_years) ==
    IF IsNum(tv) THEN Div(tv, Pow(Add(Num(1), discount_rate), projection_years))
    ELSE tv

dcf_valuation(fcf, np, discount_rate, growth_rate, projection_years) ==
    IF IsNone(fcf) \/ Leq(fcf, Num(0)) THEN None
    ELSE LET sum == npv(fcf, discount_rate, growth_rate, projection_years)
             tvd == terminal_value_discounted(
                        terminal_value(fcf, np, discount_rate, growth_rate,
                                       projection_years),
                        discount_rate, projection_years)
         IN  IF IsNum(tvd) THEN Add(sum, tvd) ELSE tvd

---------------------------------------------------------------------------
VARIABLES
    pc,           \* where the run stands: "call", "returned", "loop", "done", "raised"
    call,         \* the arguments of the call being modelled
    ret,          \* what the call returned, or the exception it raised
    prev,         \* dcf_valuation's result for the previous projection period
    log_entries,  \* the module's global diagnostic log
    results,      \* analyze_portfolio's list of result records
    total_value,  \* analyze_portfolio's running total
    locals        \* the local variables of each completed loop iteration

vars == <<pc, call, ret, prev, log_entries, results, total_value, locals>>

portfolio_vars == <<log_entries, results, total_value, locals>>

InitPortfolioVars ==
    /\ log_entries = <<>>
    /\ results = <<>>
    /\ total_value = Num(0)
    /\ locals = <<>>

(* The calculator on its own: called with each input, then again with the  *)
(* projection period one year longer (the slider moved one step).          *)

FcfInputs == {None, Num(-200000), Num(0), Num(11), Num(1000000)}

InitDcf ==
    /\ pc = "call"
    /\ call \in [fcf : FcfInputs, np : BOOLEAN, discount_rate : DiscountRates,
                 growth_rate : GrowthRates, projection_years : {1}]
    /\ ret = None
    /\ prev = None
    /\ InitPortfolioVars

CallDcf ==
    /\ pc = "call"
    /\ ret' = dcf_valuation(call.fcf, call.np, call.discount_rate,
                            call.growth_rate, call.projection_years)
    /\ pc' = "returned"
    /\ UNCHANGED <<call, prev, portfolio_vars>>

IncreaseYears ==
    /\ pc = "returned"
    /\ call.projection_years < MaxYears
    /\ call' = [call EXCEPT !.projection_years = @ + 1]
    /\ prev' = ret
    /\ ret' = None
    /\ pc' = "call"
    /\ UNCHANGED portfolio_vars

NextDcf == CallDcf \/ IncreaseYears

SpecDcf == InitDcf /\ [][NextDcf]_vars


---------------------------------------------------------------------------
(* Claims about dcf_valuation, checked under SpecDcf. *)

Returned == pc = "returned"

ScenarioA ==
    /\ Returned
    /\ call.fcf = Num(1000000)
    /\ call.discount_rate = Pct(10)
    /\ call.growth_rate = Pct(5)
    /\ call.projection_years = 5

(* x rounded to the nearest multiple of 100,000. *)
RoundTo100k(x) == RoundInt(Div(x, Num(100000))) * 100000

(* C1: whenever discountRate < growthRate, dcf_valuation returns           *)
(* "unavailable" (None), whatever fcf and projectionYears are.             *)
C1_InvertedRatesUnavailable ==
    (Returned /\ Less(call.discount_rate, call.growth_rate)) => IsNone(ret)

(* C2: whenever discountRate = growthRate, dcf_valuation returns           *)
(* "unavailable" (None) as a normal result: no ZeroDivisionError, no inf,  *)
(* no number.                                                              *)
C2_EqualRatesUnavailable ==
    (Returned /\ call.discount_rate = call.growth_rate) => IsNone(ret)

(* The case of C5: fcf > 0, discountRate > growthRate, and the calculator  *)
(* has returned for projectionYears = n (prev) and n + 1 (ret).            *)
C5_Case ==
    /\ Returned
    /\ call.projection_years >= 2
    /\ IsNum(call.fcf) /\ Less(Num(0), call.fcf)
    /\ Less(call.growth_rate, call.discount_rate)

(* C5, as claimed: the value for projectionYears = n + 1 is strictly       *)
(* greater than the value for projectionYears = n.                         *)
C5_StrictlyIncreasing ==
    C5_Case => (IsNum(prev) /\ IsNum(ret) /\ Less(prev, ret))

(* C5, amended: for fcf > 0 and discountRate > growthRate the value for    *)
(* projectionYears = n + 1 equals the value for projectionYears = n (in    *)
(* exact arithmetic; the doubles agree up to rounding error).              *)
C5_ConstantInYears ==
    C5_Case => (IsNum(prev) /\ IsNum(ret) /\ ret = prev)

C5_Witness == C5_Case /\ call.projection_years = MaxYears /\ IsNum(prev)

(* C6, as claimed: in Scenario A (fcf = 1,000,000, discountRate = 0.10,    *)
(* growthRate = 0.05, projectionYears = 5) the returned value rounds to    *)
(* 23,600,000 at the nearest 100,000.                                      *)
C6_ScenarioA_23600000 ==
    ScenarioA => (IsNum(ret) /\ RoundTo100k(ret) = 23600000)

(* C6, amended: in Scenario A dcf_valuation returns the value of the       *)
(* NPV + terminal value formula, and that value is 21,000,000.             *)
C6_ScenarioA_21000000 ==
    ScenarioA => (IsNum(ret) /\ ret = Num(21000000) /\ RoundTo100k(ret) = 21000000)

C6_Witness == ScenarioA /\ IsNum(ret)

---------------------------------------------------------------------------
(* Strings are sequences of characters, so that str.lower() and the `in`   *)
(* substring test are computed rather than assumed.                        *)

UpperCaseLetters ==
    <<"A", "B", "C", "D", "E", "F", "G", "H", "I", "J", "K", "L", "M",
      "N", "O", "P", "Q", "R", "S", "T", "U", "V", "W", "X", "Y", "Z">>
LowerCaseLetters ==
    <<"a", "b", "c", "d", "e", "f", "g", "h", "i", "j", "k", "l", "m",
      "n", "o", "p", "q", "r", "s", "t", "u", "v", "w", "x", "y", "z">>

Characters ==
    { UpperCaseLetters[i] : i \in 1..26 } \cup { LowerCaseLetters[i] : i \in 1..26 }
        \cup {" ", "-"}

LowerChar ==
    [c \in Characters |->
        IF \E i \in 1..26 : UpperCaseLetters[i] = c
        THEN LowerCaseLetters[CHOOSE i \in 1..26 : UpperCaseLetters[i] = c]
        ELSE c]
UpperChar ==
    [c \in Characters |->
        IF \E i \in 1..26 : LowerCaseLetters[i] = c
        THEN UpperCaseLetters[CHOOSE i \in 1..26 : LowerCaseLetters[i] = c]
        ELSE c]

(* str.lower(), str.upper() *)
lower(s) == [i \in 1..Len(s) |-> LowerChar[s[i]]]
upper(s) == [i \in 1..Len(s) |-> UpperChar[s[i]]]

(* a in b *)
IsSubstring(a, b) ==
    \E off \in 0..(Len(b) - Len(a)) : \A j \in 1..Len(a) : b[off + j] = a[j]

(* "Total Cash From Operating Activities" *)
TotalCashFromOperatingActivities ==
    <<"T", "o", "t", "a", "l", " ", "C", "a", "s", "h", " ", "F", "r", "o",
      "m", " ", "O", "p", "e", "r", "a", "t", "i", "n", "g", " ", "A", "c",
      "t", "i", "v", "i", "t", "i", "e", "s">>

(* "Operating Cash Flow" *)
OperatingCashFlow ==
    <<"O", "p", "e", "r", "a", "t", "i", "n", "g", " ", "C", "a", "s", "h",
      " ", "F", "l", "o", "w">>

(* "Capital Expenditures" *)
CapitalExpenditures ==
    <<"C", "a", "p", "i", "t", "a", "l", " ", "E", "x", "p", "e", "n", "d",
      "i", "t", "u", "r", "e", "s">>

(* "Capital Expenditures - Fixed Assets" *)
CapitalExpendituresFixedAssets ==
    <<"C", "a", "p", "i", "t", "a", "l", " ", "E", "x", "p", "e", "n", "d",
      "i", "t", "u", "r", "e", "s", " ", "-", " ", "F", "i", "x", "e", "d",
      " ", "A", "s", "s", "e", "t", "s">>

(* "Capital Expenditure" *)
CapitalExpenditure ==
    <<"C", "a", "p", "i", "t", "a", "l", " ", "E", "x", "p", "e", "n", "d",
      "i", "t", "u", "r", "e">>

(* "Net Income" *)
NetIncome ==
    <<"N", "e", "t", " ", "I", "n", "c", "o", "m", "e">>

---------------------------------------------------------------------------
(* The external data source.  stock.cashflow is a frame: a sequence of     *)
(* rows in index order, each a label and its period values, most recent    *)
(* first (labels are unique in a frame); or None; or the fetch raises.     *)
(* stock.info.get(key, None) is a number, None, or the fetch raises.       *)

RetrievalError == V("RetrievalError", 0, 0, 1)

Row(label, recent, older) == [label |-> label, periods |-> <<Num(recent), Num(older)>>]

StatementRows ==
    { Row(TotalCashFromOperatingActivities, 1200000, 1100000),
      Row(upper(TotalCashFromOperatingActivities), 1300000, 1250000),
      Row(OperatingCashFlow, 1140000, 1000000),
      Row(CapitalExpenditures, -200000, -180000),
      Row(CapitalExpendituresFixedAssets, -150000, -140000),
      Row(CapitalExpenditure, -100000, -90000),
      Row(NetIncome, 500000, 450000) }

RECURSIVE SeqsUpTo(_, _)
(* The sequences of at most n distinct elements of S. *)
SeqsUpTo(S, n) ==
    IF n = 0 THEN {<<>>}
    ELSE LET shorter == SeqsUpTo(S, n - 1)
         IN  shorter \cup
             { Append(q, x) : <<q, x>> \in
                 { y \in shorter \X S : /\ Len(y[1]) = n - 1
                                        /\ \A i \in 1..Len(y[1]) : y[1][i] # y[2] } }

Frame(rows) == [k |-> "frame", rows |-> rows]
NoFrame == [k |-> "None", rows |-> <<>>]
FetchRaises == [k |-> "raise", rows |-> <<>>]

Cashflows == {NoFrame, FetchRaises} \cup { Frame(r) : r \in SeqsUpTo(StatementRows, MaxRows) }

(* stock.info.get("freeCashflow", None) *)
FreeCashflows == {RetrievalError, None, Num(0), Num(500000), Num(-70000)}

(* Python truthiness of a value: None and 0 are falsy; inf and nan are not. *)
Truthy(x) == ~IsNone(x) /\ ~(IsNum(x) /\ Sign(x) = 0)

---------------------------------------------------------------------------
(* get_fcf *)

OcfLabels == <<TotalCashFromOperatingActivities, OperatingCashFlow>>
CapexLabels == <<CapitalExpenditures, CapitalExpendituresFixedAssets>>

(* cf.loc[idx].iloc[0] for the first idx, in index order, that contains    *)
(* label; None when no idx does.                                           *)
first_match_case_sensitive(rows, label) ==
    IF \E i \in 1..Len(rows) : IsSubstring(lower(label), rows[i].label)
    THEN rows[CHOOSE i \in 1..Len(rows) :
                 /\ IsSubstring(lower(label), rows[i].label)
                 /\ \A j \in 1..(i - 1) : ~IsSubstring(lower(label), rows[j].label)
             ].periods[1]
    ELSE None

first_match(rows, label) ==
    IF \E i \in 1..Len(rows) : IsSubstring(lower(label), lower(rows[i].label))
    THEN rows[CHOOSE i \in 1..Len(rows) :
                 /\ IsSubstring(lower(label), lower(rows[i].label))
                 /\ \A j \in 1..(i - 1) :
                        ~IsSubstring(lower(label), lower(rows[j].label))
             ].periods[1]
    ELSE None

RECURSIVE find_label(_, _)
find_label(rows, possible_labels) ==
    IF possible_labels = <<>> THEN None
    ELSE LET found == first_match(rows, Head(possible_labels))
         IN  IF IsNone(found) THEN find_label(rows, Tail(possible_labels))
             ELSE found

Resolved(fcf, np, ocf, capex, msg) ==
    [fcf |-> fcf, np |-> np, ocf |-> ocf, capex |-> capex, log |-> msg]

(* Lines 36-47: the summary figure, when OCF or CapEx is missing. *)
fallback(ocf, capex, fallback_fcf) ==
    IF fallback_fcf = RetrievalError
    THEN Resolved(None, FALSE, ocf, capex, "Error retrieving FCF")
    ELSE IF Truthy(fallback_fcf)
    THEN Resolved(fallback_fcf, FALSE, ocf, capex, "Used fallback FCF from summary")
    ELSE Resolved(None, FALSE, ocf, capex, "missing OCF or CapEx and no fallback FCF available")

(* cashflow is what stock.cashflow yields, free_cashflow what               *)
(* stock.info.get("freeCashflow", None) would yield if it is reached.      *)
get_fcf(cashflow, free_cashflow) ==
    IF cashflow.k = "raise"
    THEN Resolved(None, FALSE, None, None, "Error retrieving FCF")
    ELSE IF cashflow.k = "None" \/ cashflow.rows = <<>>
    THEN Resolved(None, FALSE, None, None, "No cash flow data available")
    ELSE LET ocf == find_label(cashflow.rows, OcfLabels)
             capex == find_label(cashflow.rows, CapexLabels)
         IN  IF IsNone(ocf) \/ IsNone(capex)
             THEN fallback(ocf, capex, free_cashflow)
             ELSE Resolved(Add(ocf, capex), TRUE, ocf, capex, "FCF =")

(* The resolver on its own. *)
InitFcf ==
    /\ pc = "call"
    /\ call \in [cashflow : Cashflows, free_cashflow : FreeCashflows]
    /\ ret = None
    /\ prev = None
    /\ InitPortfolioVars

CallGetFcf ==
    /\ pc = "call"
    /\ ret' = get_fcf(call.cashflow, call.free_cashflow)
    /\ log_entries' = Append(log_entries, ret'.log)
    /\ pc' = "returned"
    /\ UNCHANGED <<call, prev, results, total_value, locals>>

NextFcf == CallGetFcf

SpecFcf == InitFcf /\ [][NextFcf]_vars

---------------------------------------------------------------------------
(* Claims about get_fcf and find_label, checked under SpecFcf. *)

StatementFetched == Returned /\ call.cashflow.k = "frame" /\ call.cashflow.rows # <<>>

(* C7: when OCF or CapEx cannot be resolved from the labels, the result is *)
(* the summary figure whenever it is present (any number, 0 included) and  *)
(* "unavailable" only when it is absent.                                   *)
C7_FallbackWheneverPresent ==
    (/\ StatementFetched
     /\ IsNone(ret.ocf) \/ IsNone(ret.capex)
     /\ call.free_cashflow # RetrievalError) => ret.fcf = call.free_cashflow

(* The rows whose label contains the candidate, letter case aside. *)
Matches(rows, candidate) ==
    { i \in 1..Len(rows) : IsSubstring(lower(candidate), lower(rows[i].label)) }

Min(S) == CHOOSE x \in S : \A y \in S : x <= y

(* The selection rule of C8, stated on its own. *)
Selected(rows, candidates) ==
    LET hit == { c \in 1..Len(candidates) : Matches(rows, candidates[c]) # {} }
    IN  IF hit = {} THEN None
        ELSE rows[Min(Matches(rows, candidates[Min(hit)]))].periods[1]

WithLabels(cashflow, F(_)) ==
    [cashflow EXCEPT !.rows = [i \in 1..Len(cashflow.rows) |->
                                  [cashflow.rows[i] EXCEPT !.label = F(@)]]]

ScenarioD ==
    /\ StatementFetched
    /\ { call.cashflow.rows[i].label : i \in 1..Len(call.cashflow.rows) }
           = {OperatingCashFlow, CapitalExpendituresFixedAssets}

(* C8: find_label returns the most recent value of the first label, in     *)
(* statement order, that contains the first candidate, in priority order,  *)
(* contained in any label, letter case aside, and None only if no          *)
(* candidate is contained in any label; so the resolved FCF does not       *)
(* change when the labels' letter case does, and Scenario D resolves both  *)
(* quantities through the second synonym.                                  *)
C8_FindLabel ==
    StatementFetched =>
        /\ ret.ocf = Selected(call.cashflow.rows, OcfLabels)
        /\ ret.capex = Selected(call.cashflow.rows, CapexLabels)
        /\ get_fcf(WithLabels(call.cashflow, upper), call.free_cashflow).fcf = ret.fcf
        /\ get_fcf(WithLabels(call.cashflow, lower), call.free_cashflow).fcf = ret.fcf
        /\ ScenarioD => ret.fcf = Add(Num(1140000), Num(-150000))

(* A lower-priority synonym's label comes first in the statement, the      *)
(* first synonym's label is upper case only, and it is still the one       *)
(* chosen.                                                                 *)
C8_Witness ==
    /\ StatementFetched
    /\ Len(call.cashflow.rows) >= 2
    /\ call.cashflow.rows[1].label = OperatingCashFlow
    /\ call.cashflow.rows[2].label = upper(TotalCashFromOperatingActivities)
    /\ ret.ocf = call.cashflow.rows[2].periods[1]

---------------------------------------------------------------------------
(* Float arithmetic on finite numbers, inf, -inf and nan. *)

IsNaN(x) == x.k = "nan"

XSign(x) == IF IsNum(x) THEN Sign(x) ELSE IF x.k = "inf" THEN 1
            ELSE IF x.k = "-inf" THEN -1 ELSE 0

XNeg(x) == IF IsNum(x) THEN Neg(x) ELSE IF x.k = "inf" THEN NegInf
           ELSE IF x.k = "-inf" THEN Inf ELSE NaN

XAdd(x, y) ==
    IF IsNum(x) /\ IsNum(y) THEN Add(x, y)
    ELSE IF IsNaN(x) \/ IsNaN(y) THEN NaN
    ELSE IF IsNum(x) THEN y
    ELSE IF IsNum(y) \/ x = y THEN x
    ELSE NaN

XSub(x, y) == XAdd(x, XNeg(y))

XMul(x, y) ==
    IF IsNum(x) /\ IsNum(y) THEN Mul(x, y)
    ELSE IF IsNaN(x) \/ IsNaN(y) \/ XSign(x) * XSign(y) = 0 THEN NaN
    ELSE IF XSign(x) * XSign(y) > 0 THEN Inf ELSE NegInf

(* x / y for a finite y # 0. *)
XDiv(x, y) ==
    IF IsNum(x) THEN Div(x, y)
    ELSE IF IsNaN(x) THEN NaN
    ELSE IF XSign(x) * Sign(y) > 0 THEN Inf ELSE NegInf

(* x < y; every comparison with nan is false. *)
XLess(x, y) ==
    IF IsNum(x) /\ IsNum(y) THEN Less(x, y)
    ELSE IF IsNaN(x) \/ IsNaN(y) THEN FALSE
    ELSE XSign(XSub(x, y)) < 0 /\ x # y

(* round(x, 2) *)
round2(x) == IF IsNum(x) THEN Div(Num(RoundInt(Mul(x, Num(100)))), Num(100)) ELSE x

round2_or_none(x) == IF Truthy(x) THEN round2(x) ELSE None

---------------------------------------------------------------------------
(* valuation_flag *)

tolerance == Frac(1, 10)

NoFlag == "None"

valuation_flag_inclusive(dcf, market) ==
    IF ~Truthy(dcf) \/ ~Truthy(market) THEN NoFlag
    ELSE LET diff == XDiv(XSub(dcf, market), market)
         IN  IF ~XLess(diff, tolerance) /\ ~IsNaN(diff) THEN "Undervalued"
             ELSE IF XLess(diff, Neg(tolerance)) THEN "Overvalued"
             ELSE "Fairly Valued"

valuation_flag(dcf, market) ==
    IF ~Truthy(dcf) \/ ~Truthy(market) THEN NoFlag
    ELSE LET diff == XDiv(XSub(dcf, market), market)
         IN  IF XLess(tolerance, diff) THEN "Undervalued"
             ELSE IF XLess(diff, Neg(tolerance)) THEN "Overvalued"
             ELSE "Fairly Valued"

---------------------------------------------------------------------------
(* analyze_portfolio.  The data source answers for a fixed set of          *)
(* tickers; any of its fetches may also fail.                              *)

Holding(ticker, shares) == [Ticker |-> ticker, Shares |-> Num(shares)]

Holdings ==
    { Holding("AAPL", 20), Holding("MSFT", 15), Holding("GOOGL", 10),
      Holding("NVDA", 8), Holding("JNJ", 25), Holding("IBM", 12),
      Holding("GE", 30), Holding("F", 7), Holding("T", 3) }

StatementA ==
    Frame(<<Row(TotalCashFromOperatingActivities, 1200000, 1100000),
            Row(CapitalExpenditures, -200000, -180000)>>)
StatementD ==
    Frame(<<Row(OperatingCashFlow, 1140000, 1000000),
            Row(CapitalExpendituresFixedAssets, -150000, -140000)>>)
StatementN == Frame(<<Row(NetIncome, 500000, 450000)>>)

Data(cf, fc, so, price) ==
    [cashflow |-> cf, freeCashflow |-> fc, sharesOutstanding |-> so, currentPrice |-> price]

(* What yfinance holds for each ticker. *)
Source(ticker) ==
    CASE ticker = "AAPL"  -> Data(StatementD, None, Num(1890000), Num(10))
      [] ticker = "MSFT"  -> Data(StatementD, None, Num(2310000), Num(10))
      [] ticker = "GOOGL" -> Data(StatementA, None, Num(9000000), Num(2))
      [] ticker = "NVDA"  -> Data(StatementA, None, Num(9000000), Num(5))
      [] ticker = "JNJ"   -> Data(StatementN, Num(500000), Num(1890000), None)
      [] ticker = "IBM"   -> Data(StatementA, None, None, Num(10))
      [] ticker = "GE"    -> Data(StatementA, None, Num(0), Num(10))
      [] ticker = "F"     -> Data(StatementA, None, Num(-1890000), Num(10))
      [] ticker = "T"     -> Data(StatementD, None, Num(1890000), Num(0))

(* The fetches of one loop iteration that can fail: stock.cashflow and     *)
(* stock.info inside get_fcf, stock.info in analyze_portfolio.             *)
Fetches == {"cashflow", "freeCashflow", "info"}

(* The projection period slider's minimum, the discount rate slider's      *)
(* default, and the growth rates of the runs.                              *)
MinProjectionYears == 1
PortfolioDiscountRates == {Pct(10)}
PortfolioGrowthRates == {Pct(5), Pct(10), Pct(15)}

(* Lines 97-98: the guards of value_per_share and holding_value. *)
value_per_share_of(intrinsic_value, shares_outstanding) ==
    IF Truthy(intrinsic_value) /\ Truthy(shares_outstanding)
    THEN XDiv(intrinsic_value, shares_outstanding) ELSE None

holding_value_of(value_per_share, shares) ==
    IF Truthy(value_per_share) THEN XMul(value_per_share, shares) ELSE None

(* Lines 100-101, with the displayed (rounded) value added instead. *)
add_rounded(total, holding_value) ==
    IF Truthy(holding_value) THEN XAdd(total, round2(holding_value)) ELSE total

(* Lines 100-101. *)
add_to_total(total, holding_value) ==
    IF Truthy(holding_value) THEN XAdd(total, holding_value) ELSE total

(* Lines 105-114: the result record. *)
result_record(l) ==
    LET both == Truthy(l.value_per_share) /\ Truthy(l.current_price)
        difference == XSub(l.value_per_share, l.current_price)
    IN  [ Ticker |-> l.ticker,
          Shares |-> l.shares,
          DCFValuePerShare |-> round2_or_none(l.value_per_share),
          MarketPrice |-> round2_or_none(l.current_price),
          Difference |-> IF both THEN round2(difference) ELSE None,
          UpsideDownside |->
              IF both THEN round2(XMul(XDiv(difference, l.current_price), Num(100)))
              ELSE None,
          Valuation |-> l.flag,
          EstimatedHoldingValue |-> round2_or_none(l.holding_value) ]

(* Lines 97-103: the local variables of one iteration once the value per  *)
(* share is known.                                                         *)
iteration_locals(row, fcf, info, intrinsic_value, value_per_share) ==
    [ ticker |-> row.Ticker,
      shares |-> row.Shares,
      fcf |-> fcf,
      intrinsic_value |-> intrinsic_value,
      shares_outstanding |-> info.sharesOutstanding,
      current_price |-> info.currentPrice,
      value_per_share |-> value_per_share,
      holding_value |-> holding_value_of(value_per_share, row.Shares),
      flag |-> valuation_flag(value_per_share, info.currentPrice) ]

(* Lines 93-97. *)
iteration_valued(row, fcf, info, intrinsic_value) ==
    iteration_locals(row, fcf, info, intrinsic_value,
                     value_per_share_of(intrinsic_value, info.sharesOutstanding))

(* Lines 88-103: the local variables of one iteration, given what the      *)
(* fetches of get_fcf yielded and what stock.info holds.                   *)
iteration(row, resolved, info, discount_rate, growth_rate, projection_years) ==
    iteration_valued(row, resolved.fcf, info,
                     dcf_valuation(resolved.fcf, resolved.np, discount_rate,
                                   growth_rate, projection_years))

(* Line 90: get_fcf with the fetches that fail in this iteration. *)
fetch_fcf(data, failed) ==
    get_fcf(IF "cashflow" \in failed THEN FetchRaises ELSE data.cashflow,
            IF "freeCashflow" \in failed THEN RetrievalError ELSE data.freeCashflow)

InitPortfolio ==
    /\ pc = "loop"
    /\ call \in [df : UNION { [1..n -> Holdings] : n \in 0..MaxHoldings },
                 discount_rate : PortfolioDiscountRates,
                 growth_rate : PortfolioGrowthRates,
                 projection_years : {MinProjectionYears}]
    /\ ret = None
    /\ prev = None
    /\ InitPortfolioVars

(* The effect of one iteration with locals l: dcf_valuation raises, or the *)
(* unguarded stock.info of line 93 raises, or the record is appended.      *)
Iterated(failed, l) ==
    IF l.intrinsic_value = ZeroDivisionError
    THEN /\ pc' = "raised"
         /\ ret' = ZeroDivisionError
         /\ UNCHANGED <<results, total_value, locals>>
    ELSE IF "info" \in failed
    THEN /\ pc' = "raised"
         /\ ret' = RetrievalError
         /\ UNCHANGED <<results, total_value, locals>>
    ELSE /\ total_value' = add_to_total(total_value, l.holding_value)
         /\ results' = Append(results, result_record(l))
         /\ locals' = Append(locals, l)
         /\ UNCHANGED <<pc, ret>>

LoopBody(row, info, failed, resolved) ==
    /\ log_entries' = Append(log_entries, resolved.log)
    /\ Iterated(failed, iteration(row, resolved, info, call.discount_rate,
                                  call.growth_rate, call.projection_years))

(* One iteration of the loop over df.iterrows(). *)
AnalyzeHolding ==
    /\ pc = "loop"
    /\ Len(locals) < Len(call.df)
    /\ \E failed \in {{}} \cup { {f} : f \in Fetches } :
         LoopBody(call.df[Len(locals) + 1],
                  Source(call.df[Len(locals) + 1].Ticker), failed,
                  fetch_fcf(Source(call.df[Len(locals) + 1].Ticker), failed))
    /\ UNCHANGED <<call, prev>>

(* Line 116. *)
Return ==
    /\ pc = "loop"
    /\ Len(locals) = Len(call.df)
    /\ pc' = "done"
    /\ ret' = total_value
    /\ UNCHANGED <<call, prev, portfolio_vars>>

NextPortfolio == AnalyzeHolding \/ Return

SpecPortfolio == InitPortfolio /\ [][NextPortfolio]_vars

---------------------------------------------------------------------------
(* Claims about analyze_portfolio, checked under SpecPortfolio. *)

(* C3: a failed retrieval for one holding is confined to that holding: it  *)
(* never ends the run abnormally (the run goes on to return one record     *)
(* for every input holding).                                               *)
C3_RetrievalFailureConfined == ~(pc = "raised" /\ ret = RetrievalError)

RECURSIVE SumOfPresent(_)
(* The sum, in input order, of the holding values that are present. *)
SumOfPresent(ls) ==
    IF ls = <<>> THEN Num(0)
    ELSE LET l == ls[Len(ls)]
             before == SumOfPresent(SubSeq(ls, 1, Len(ls) - 1))
         IN  IF IsNone(l.holding_value) THEN before
             ELSE XAdd(before, XMul(l.value_per_share, l.shares))

AllUnavailable(r) ==
    /\ IsNone(r.DCFValuePerShare) /\ IsNone(r.MarketPrice) /\ IsNone(r.Difference)
    /\ IsNone(r.UpsideDownside) /\ IsNone(r.EstimatedHoldingValue)
    /\ r.Valuation = NoFlag

(* C4: the total is the sum of holdingValue = valuePerShare x shares,      *)
(* unrounded, over exactly the holdings whose holdingValue is present,     *)
(* after every holding processed; when the run returns there is one        *)
(* record per input holding, in input order, and a holding whose fields    *)
(* are all unavailable has its record and adds nothing.                    *)
C4_TotalIsSumOfPresent ==
    /\ pc \in {"loop", "done"} =>
          /\ total_value = SumOfPresent(locals)
          /\ Len(results) = Len(locals)
          /\ \A i \in 1..Len(results) :
                /\ results[i].Ticker = call.df[i].Ticker
                /\ results[i].Shares = call.df[i].Shares
                /\ AllUnavailable(results[i]) =>
                      SumOfPresent(SubSeq(locals, 1, i))
                          = SumOfPresent(SubSeq(locals, 1, i - 1))
    /\ pc = "done" => (Len(results) = Len(call.df) /\ ret = SumOfPresent(locals))

(* A finished run of two holdings: one all unavailable, one whose holding  *)
(* value is present and is changed by display rounding.                    *)
C4_Witness ==
    /\ pc = "done"
    /\ Len(results) = 2
    /\ AllUnavailable(results[1])
    /\ results[2].Valuation = "Undervalued"
    /\ ~IsNone(results[2].EstimatedHoldingValue)
    /\ results[2].EstimatedHoldingValue # locals[2].holding_value
    /\ total_value = locals[2].holding_value

(* (valuePerShare - marketPrice) / marketPrice of a holding. *)
RelativeDifference(l) == XDiv(XSub(l.value_per_share, l.current_price), l.current_price)

(* C9: a record's valuation flag is Unavailable exactly when its value per *)
(* share or its market price is absent (a price of 0 is recorded as        *)
(* absent); otherwise, with d the relative difference, it is Undervalued   *)
(* exactly when d > 0.10, Overvalued exactly when d < -0.10 and Fairly     *)
(* Valued exactly when -0.10 <= d <= 0.10.                                 *)
C9_ValuationFlag ==
    \A i \in 1..Len(results) :
        LET r == results[i]
            d == RelativeDifference(locals[i])
        IN  /\ r.Valuation = NoFlag <=> (IsNone(r.DCFValuePerShare) \/ IsNone(r.MarketPrice))
            /\ r.Valuation # NoFlag =>
                  /\ r.Valuation = "Undervalued" <=> XLess(Frac(10, 100), d)
                  /\ r.Valuation = "Overvalued" <=> XLess(d, Neg(Frac(10, 100)))
                  /\ r.Valuation = "Fairly Valued" <=>
                        (~XLess(d, Neg(Frac(10, 100))) /\ ~XLess(Frac(10, 100), d))

(* Both boundaries in one run: d = 0.10 and d = -0.10, each Fairly Valued. *)
C9_Witness ==
    /\ Len(results) = 2
    /\ results[1].Valuation = "Fairly Valued"
    /\ results[2].Valuation = "Fairly Valued"
    /\ RelativeDifference(locals[1]) = Frac(10, 100)
    /\ RelativeDifference(locals[2]) = Neg(Frac(10, 100))

(* C10: a holding's value per share is present exactly when its intrinsic  *)
(* value is present and sharesOutstanding is a positive number, and is     *)
(* then their quotient; its holding value is present exactly when its      *)
(* value per share is, whatever the market price.                          *)
C10_ValuePerShareIffPositiveShares ==
    \A i \in 1..Len(locals) :
        LET l == locals[i]
        IN  /\ ~IsNone(l.value_per_share) <=>
                  /\ ~IsNone(l.intrinsic_value)
                  /\ IsNum(l.shares_outstanding) /\ Sign(l.shares_outstanding) > 0
            /\ ~IsNone(l.value_per_share) =>
                  l.value_per_share = XDiv(l.intrinsic_value, l.shares_outstanding)
            /\ ~IsNone(l.holding_value) <=> ~IsNone(l.value_per_share)

=============================================================================
